---- MODULE Spec2Model ----
(***************************************************************************)
(* School-fees analytics dashboard (src/main.py).                          *)
(*                                                                         *)
(* The model follows one interactive session: a sheet is uploaded and      *)
(* cleaned (clean_data), and the pipeline functions get_data_by_date,      *)
(* display_payment_summary_table, create_time_summaries and the page       *)
(* script main are run on it.                                              *)
(*                                                                         *)
(* Python text is a sequence of character codes, so that str.upper, the    *)
(* parsing of dates and amounts, the formatting of period labels and the   *)
(* lexicographic order pandas sorts labels by are computed.  A DataFrame   *)
(* is a record [columns, rows]: columns is the sequence of column labels,  *)
(* each row a function from column label to cell value.  A call that       *)
(* raises is recorded by its exception name in the status of its result.   *)
(***************************************************************************)
EXTENDS Integers, Sequences, FiniteSets, TLC

\* Largest number of data rows in an uploaded sheet.
MaxRows == 2

(***************************************************************************)
(* Text                                                                    *)
(***************************************************************************)
T_CASH   == <<67, 65, 83, 72>>                    \* 'CASH'
T_ONLINE == <<79, 78, 76, 73, 78, 69>>            \* 'ONLINE'
T_OTHER  == <<79, 84, 72, 69, 82>>                \* 'OTHER'

\* str.upper on the ASCII range.
Upper(s) == [i \in 1..Len(s) |-> IF s[i] >= 97 /\ s[i] <= 122 THEN s[i] - 32 ELSE s[i]]

IsDigit(c) == c >= 48 /\ c <= 57

RECURSIVE StrOfNat(_)
\* str(n) for n >= 0: the decimal digits.
StrOfNat(n) == IF n < 10 THEN <<48 + n>> ELSE StrOfNat(n \div 10) \o <<48 + (n % 10)>>

\* str(n) for an integer.
StrOfInt(n) == IF n < 0 THEN <<45>> \o StrOfNat(-n) ELSE StrOfNat(n)

RECURSIVE NatOfDigits(_)
\* The number a non-empty sequence of digits writes.
NatOfDigits(s) ==
    IF Len(s) = 1 THEN s[1] - 48
    ELSE 10 * NatOfDigits(SubSeq(s, 1, Len(s) - 1)) + (s[Len(s)] - 48)

AllDigits(s) == Len(s) > 0 /\ \A i \in 1..Len(s) : IsDigit(s[i])

RECURSIVE StrLess(_, _)
\* Python's s < t on str: lexicographic by code point.
StrLess(s, t) ==
    IF Len(t) = 0 THEN FALSE
    ELSE IF Len(s) = 0 THEN TRUE
    ELSE IF s[1] # t[1] THEN s[1] < t[1]
    ELSE StrLess(Tail(s), Tail(t))

(***************************************************************************)
(* Cells of the raw sheet, as read_excel hands them over                   *)
(***************************************************************************)
NullCell        == [kind |-> "null", v |-> 0]
TextCell(s)     == [kind |-> "text", v |-> s]
NumCell(n)      == [kind |-> "num", v |-> n]
LabelCell(name) == [kind |-> "label", v |-> name]

\* A Timestamp; nat marks NaT.  minute is the time of day.
Timestamp(y, m, d, t) == [nat |-> FALSE, year |-> y, month |-> m, day |-> d, minute |-> t]
NaT == [nat |-> TRUE, year |-> 0, month |-> 0, day |-> 0, minute |-> 0]
DateTimeCell(y, m, d, t) == [kind |-> "datetime", v |-> Timestamp(y, m, d, t)]

(***************************************************************************)
(* Calendar                                                                *)
(***************************************************************************)
IsLeap(y) == (y % 4 = 0 /\ y % 100 # 0) \/ y % 400 = 0

DaysInMonth(y, m) ==
    IF m = 2 THEN (IF IsLeap(y) THEN 29 ELSE 28)
    ELSE IF m \in {4, 6, 9, 11} THEN 30 ELSE 31

RECURSIVE DaysBeforeMonth(_, _)
DaysBeforeMonth(y, m) == IF m = 1 THEN 0 ELSE DaysBeforeMonth(y, m - 1) + DaysInMonth(y, m - 1)

DayOfYear(y, m, d) == DaysBeforeMonth(y, m) + d

\* Proleptic Gregorian ordinal: 0001-01-01 is day 1.
Ordinal(y, m, d) ==
    365 * (y - 1) + ((y - 1) \div 4) - ((y - 1) \div 100) + ((y - 1) \div 400) + DayOfYear(y, m, d)

\* ISO weekday: Monday is 1, Sunday is 7.
IsoWeekday(y, m, d) == ((Ordinal(y, m, d) + 6) % 7) + 1

\* Number of ISO weeks of ISO year y: 53 when 1 January is a Thursday, or a
\* Wednesday of a leap year.
WeeksInYear(y) ==
    IF IsoWeekday(y, 1, 1) = 4 \/ (IsLeap(y) /\ IsoWeekday(y, 1, 1) = 3) THEN 53 ELSE 52

\* .dt.isocalendar().week: the ISO 8601 week number of a date.
IsoWeek(y, m, d) ==
    LET w == (DayOfYear(y, m, d) - IsoWeekday(y, m, d) + 10) \div 7
    IN  IF w < 1 THEN WeeksInYear(y - 1)
        ELSE IF w > WeeksInYear(y) THEN 1
        ELSE w

(***************************************************************************)
(* clean_data                                                              *)
(***************************************************************************)
\* A text of the form YYYY-MM-DD naming a day of the calendar.
IsIsoDateText(s) ==
    /\ Len(s) = 10
    /\ s[5] = 45 /\ s[8] = 45
    /\ \A i \in {1, 2, 3, 4, 6, 7, 9, 10} : IsDigit(s[i])
    /\ LET y == NatOfDigits(SubSeq(s, 1, 4))
           m == NatOfDigits(SubSeq(s, 6, 7))
           d == NatOfDigits(SubSeq(s, 9, 10))
       IN  y >= 1 /\ m \in 1..12 /\ d >= 1 /\ d <= DaysInMonth(y, m)

\* pd.to_datetime(cell, errors='coerce') on one cell: a datetime is kept, a text
\* is parsed, a number counts nanoseconds from 1970-01-01, everything else and
\* every failure is NaT.
to_datetime(cell) ==
    CASE cell.kind = "datetime" -> cell.v
      [] cell.kind = "num" -> Timestamp(1970, 1, 1, 0)
      [] cell.kind = "text" ->
            IF IsIsoDateText(cell.v)
            THEN Timestamp(NatOfDigits(SubSeq(cell.v, 1, 4)),
                           NatOfDigits(SubSeq(cell.v, 6, 7)),
                           NatOfDigits(SubSeq(cell.v, 9, 10)), 0)
            ELSE NaT
      [] OTHER -> NaT

\* str(x) of a payment-details cell: a text or a number (after fillna no cell is
\* missing, and the sheets hold no other kind in this column).
str(cell) ==
    CASE cell.kind = "text" -> cell.v
      [] cell.kind = "num" -> StrOfInt(cell.v)
      [] OTHER -> <<>>

\* .fillna('OTHER'): a missing cell becomes the text 'OTHER'.
fillna_OTHER(cell) == IF cell.kind = "null" THEN TextCell(T_OTHER) ELSE cell

\* classify comparing the text as it is, without upper().
classify_exact(cell) ==
    IF str(cell) = T_CASH THEN "CASH"
    ELSE IF str(cell) = T_ONLINE THEN "ONLINE"
    ELSE "OTHER"

\* The lambda of lines 19-20.
classify(cell) ==
    IF Upper(str(cell)) = T_CASH THEN "CASH"
    ELSE IF Upper(str(cell)) = T_ONLINE THEN "ONLINE"
    ELSE "OTHER"

\* df['Payment Details'].fillna('OTHER') followed by the classification.
PaymentType(cell) == classify(fillna_OTHER(cell))

\* pd.to_numeric(cell, errors='coerce') on one cell; a float is [nan, v], nan marking NaN.
to_numeric(cell) ==
    CASE cell.kind = "num" -> [nan |-> FALSE, v |-> cell.v]
      [] cell.kind = "text" ->
            IF AllDigits(cell.v) THEN [nan |-> FALSE, v |-> NatOfDigits(cell.v)]
            ELSE IF Len(cell.v) > 1 /\ cell.v[1] = 45 /\ AllDigits(Tail(cell.v))
                 THEN [nan |-> FALSE, v |-> 0 - NatOfDigits(Tail(cell.v))]
                 ELSE [nan |-> TRUE, v |-> 0]
      [] OTHER -> [nan |-> TRUE, v |-> 0]

\* fillna_0 left out: NaN stays.
fillna_0_missing(n) == n

\* .fillna(0): NaN becomes 0.
fillna_0(n) == IF n.nan THEN [nan |-> FALSE, v |-> 0] ELSE n

\* pd.to_numeric(..., errors='coerce').fillna(0)
PaidAmount(cell) == fillna_0(to_numeric(cell))

\* Position of a label in a sequence of labels (0 when absent).
IndexOf(labels, name) ==
    IF \E i \in 1..Len(labels) : labels[i] = name
    THEN CHOOSE i \in 1..Len(labels) : labels[i] = name /\ \A j \in 1..(i - 1) : labels[j] # name
    ELSE 0

\* The labels df.iloc[1] supplies.
HeaderLabels(raw) == [i \in 1..Len(raw[2]) |-> raw[2][i].v]

\* One cleaned row from one raw data row.
CleanRow(labels, r) ==
    [c \in {labels[i] : i \in 1..Len(labels)} \cup {"Payment Type"} |->
        CASE c = "Fees Paid Date" -> to_datetime(r[IndexOf(labels, "Fees Paid Date")])
          [] c = "Payment Type"   -> PaymentType(r[IndexOf(labels, "Payment Details")])
          [] c = "Paid Amount"    -> PaidAmount(r[IndexOf(labels, "Paid Amount")])
          [] OTHER                -> r[IndexOf(labels, c)]]

\* clean_data dropping the rows whose date did not parse.
clean_data_dropna(raw) ==
    LET labels == HeaderLabels(raw)
        rows   == [i \in 1..(Len(raw) - 2) |-> CleanRow(labels, raw[i + 2])]
    IN  [columns |-> labels \o <<"Payment Type">>,
         rows    |-> SelectSeq(rows, LAMBDA r : ~r["Fees Paid Date"].nat)]

\* clean_data(df): row 1 names the columns, rows from 2 on are the data.
clean_data(raw) ==
    LET labels == HeaderLabels(raw)
    IN  [columns |-> labels \o <<"Payment Type">>,
         rows    |-> [i \in 1..(Len(raw) - 2) |-> CleanRow(labels, raw[i + 2])]]

(***************************************************************************)
(* Frames and their helpers                                                *)
(***************************************************************************)
EmptyFrame == [columns |-> <<>>, rows |-> <<>>]

Range(s) == {s[i] : i \in 1..Len(s)}

HasDuplicates(s) == \E i, j \in 1..Len(s) : i # j /\ s[i] = s[j]

RECURSIVE SumSeq(_)
SumSeq(s) == IF Len(s) = 0 THEN 0 ELSE s[1] + SumSeq(Tail(s))

\* A calendar date; some = FALSE is Python's None.
Date(y, m, d) == [some |-> TRUE, year |-> y, month |-> m, day |-> d]
NoDate == [some |-> FALSE, year |-> 0, month |-> 0, day |-> 0]

\* .dt.date of a Timestamp: the time of day is dropped, NaT stays NaT.
DtDate(ts) == IF ts.nat THEN NoDate ELSE Date(ts.year, ts.month, ts.day)

\* DateEq comparing the Timestamp itself with the date: only midnight matches.
DateEq_midnight(ts, d) ==
    ~ts.nat /\ d.some /\ ts.year = d.year /\ ts.month = d.month /\ ts.day = d.day /\ ts.minute = 0

\* Series.dt.date == selected_date, on one element: NaT equals no date.
DateEq(ts, d) ==
    LET x == DtDate(ts) IN x.some /\ d.some /\ x.year = d.year /\ x.month = d.month /\ x.day = d.day

\* sum() of a float column: NaN is skipped.
ColumnSum(rows, c) == SumSeq([i \in 1..Len(rows) |-> IF rows[i][c].nan THEN 0 ELSE rows[i][c].v])

\* count() of a float column: the number of values that are not NaN.
ColumnCount(rows, c) == Cardinality({i \in 1..Len(rows) : ~rows[i][c].nan})

\* The text of a payment type, which pandas orders group keys and pivot columns by.
TypeText(t) == CASE t = "CASH" -> T_CASH [] t = "ONLINE" -> T_ONLINE [] OTHER -> T_OTHER

\* A finite set of texts in ascending order.
SortedTexts(S) ==
    [i \in 1..Cardinality(S) |-> CHOOSE x \in S : Cardinality({y \in S : StrLess(y, x)}) = i - 1]

\* A finite set of payment types in ascending order of their text.
SortedTypes(S) ==
    [i \in 1..Cardinality(S) |->
        CHOOSE x \in S : Cardinality({y \in S : StrLess(TypeText(y), TypeText(x))}) = i - 1]

(***************************************************************************)
(* get_data_by_date and display_payment_summary_table                      *)
(***************************************************************************)
\* df[df['Fees Paid Date'].dt.date == selected_date]
get_data_by_date(df, selected_date) ==
    LET Match(r) == DateEq(r["Fees Paid Date"], selected_date)
    IN  [columns |-> df.columns, rows |-> SelectSeq(df.rows, Match)]

\* df.groupby('Payment Type')['Paid Amount'].agg(['sum', 'count']).reset_index(),
\* renamed: one row per payment type that occurs, in ascending order of the type.
PaymentSummary(df) ==
    LET types == {df.rows[i]["Payment Type"] : i \in 1..Len(df.rows)}
        keys == SortedTypes(types)
        Group(t) == SelectSeq(df.rows, LAMBDA r : r["Payment Type"] = t)
    IN  [columns |-> <<"Payment Type", "Total Amount", "Number of Transactions">>,
         rows |-> [k \in 1..Len(keys) |->
                     [c \in {"Payment Type", "Total Amount", "Number of Transactions"} |->
                        CASE c = "Payment Type" -> keys[k]
                          [] c = "Total Amount" -> ColumnSum(Group(keys[k]), "Paid Amount")
                          [] OTHER -> ColumnCount(Group(keys[k]), "Paid Amount")]]]

\* display_payment_summary_table(df, date): the summary frame it shows.
display_payment_summary_table(df, date) ==
    PaymentSummary(IF date.some THEN get_data_by_date(df, date) ELSE df)

(***************************************************************************)
(* create_time_summaries                                                   *)
(***************************************************************************)
\* calendar.month_name[m]
month_name(m) ==
    CASE m = 1  -> <<74, 97, 110, 117, 97, 114, 121>>                 \* January
      [] m = 2  -> <<70, 101, 98, 114, 117, 97, 114, 121>>            \* February
      [] m = 3  -> <<77, 97, 114, 99, 104>>                           \* March
      [] m = 4  -> <<65, 112, 114, 105, 108>>                         \* April
      [] m = 5  -> <<77, 97, 121>>                                    \* May
      [] m = 6  -> <<74, 117, 110, 101>>                              \* June
      [] m = 7  -> <<74, 117, 108, 121>>                              \* July
      [] m = 8  -> <<65, 117, 103, 117, 115, 116>>                    \* August
      [] m = 9  -> <<83, 101, 112, 116, 101, 109, 98, 101, 114>>      \* September
      [] m = 10 -> <<79, 99, 116, 111, 98, 101, 114>>                 \* October
      [] m = 11 -> <<78, 111, 118, 101, 109, 98, 101, 114>>           \* November
      [] OTHER  -> <<68, 101, 99, 101, 109, 98, 101, 114>>            \* December

\* Ascending order of group keys <<year, month or week, payment type>>.
KeyLess(a, b) ==
    \/ a[1] < b[1]
    \/ a[1] = b[1] /\ a[2] < b[2]
    \/ a[1] = b[1] /\ a[2] = b[2] /\ StrLess(TypeText(a[3]), TypeText(b[3]))

\* A finite set of group keys in ascending order.
SortedKeys(S) ==
    [i \in 1..Cardinality(S) |-> CHOOSE x \in S : Cardinality({y \in S : KeyLess(y, x)}) = i - 1]

\* groupby(keys)['Paid Amount'].sum() over the rows no key of which is missing,
\* row_keys[i] being the key of rows[i]: one group per key, in ascending key
\* order, with the sum of the paid amounts of its rows.
GroupBySum(rows, row_keys) ==
    LET keys == SortedKeys(Range(row_keys))
    IN  [k \in 1..Len(keys) |->
            [key |-> keys[k],
             sum |-> SumSeq([i \in 1..Len(rows) |->
                        IF row_keys[i] = keys[k] /\ ~rows[i]["Paid Amount"].nan
                        THEN rows[i]["Paid Amount"].v ELSE 0])]]

\* Series.reset_index(): the index levels become columns named after the levels,
\* before the value column; it raises ValueError when a level name is already
\* taken ("cannot insert ..., already exists").
reset_index(names, value_name, groups) ==
    LET cols == names \o <<value_name>>
    IN  IF HasDuplicates(cols)
        THEN [status |-> "ValueError", frame |-> EmptyFrame]
        ELSE [status |-> "ok",
              frame |-> [columns |-> cols,
                         rows |-> [k \in 1..Len(groups) |->
                                     [c \in Range(cols) |->
                                        IF c = value_name THEN groups[k].sum
                                        ELSE groups[k].key[IndexOf(names, c)]]]]]

\* f"{calendar.month_name[int(x['Month'])]} {int(x['Year'])}"
MonthLabel(x) == month_name(x["Month"]) \o <<32>> \o StrOfInt(x["Year"])

\* f"Week {int(x['Week'])}, {int(x['Year'])}"
WeekLabel(x) == <<87, 101, 101, 107, 32>> \o StrOfInt(x["Week"]) \o <<44, 32>> \o StrOfInt(x["Year"])

\* summary['Period'] = summary.apply(lambda x: ..., axis=1), the lambda being
\* the monthly one (unit "Month") or the weekly one (unit "Week"): it reads
\* x[unit] and x['Year'], and x[c] raises KeyError for a column that is not
\* there.  On a frame without rows apply hands back a frame, which cannot be set
\* as one column.
AddPeriod(frame, unit) ==
    IF Len(frame.rows) = 0 THEN [status |-> "ValueError", frame |-> EmptyFrame]
    ELSE IF ~({unit, "Year"} \subseteq Range(frame.columns)) THEN [status |-> "KeyError", frame |-> EmptyFrame]
    ELSE [status |-> "ok",
          frame |-> [columns |-> frame.columns \o <<"Period">>,
                     rows |-> [k \in 1..Len(frame.rows) |->
                                 ("Period" :> (IF unit = "Month" THEN MonthLabel(frame.rows[k])
                                                                ELSE WeekLabel(frame.rows[k])))
                                 @@ frame.rows[k]]]]

\* Names of the monthly group keys: the two Series .dt.year and .dt.month keep
\* the name of the column they are taken from.
MonthlyKeyNames == <<"Fees Paid Date", "Fees Paid Date", "Payment Type">>

\* Names of the weekly group keys.
WeeklyKeyNames == <<"Fees Paid Date", "Week", "Payment Type">>

HasDate(r) == ~r["Fees Paid Date"].nat

MonthlyKey(r) == <<r["Fees Paid Date"].year, r["Fees Paid Date"].month, r["Payment Type"]>>

\* The week column: <NA> for NaT.
Week(ts) == IF ts.nat THEN [na |-> TRUE, v |-> 0] ELSE [na |-> FALSE, v |-> IsoWeek(ts.year, ts.month, ts.day)]

\* df['Week'] = df['Fees Paid Date'].dt.isocalendar().week, on the frame passed in.
WithWeek(df) ==
    [columns |-> IF "Week" \in Range(df.columns) THEN df.columns ELSE df.columns \o <<"Week">>,
     rows |-> [i \in 1..Len(df.rows) |-> ("Week" :> Week(df.rows[i]["Fees Paid Date"])) @@ df.rows[i]]]

HasWeek(r) == ~r["Fees Paid Date"].nat /\ ~r["Week"].na

\* The calendar year of the date with the ISO week number of the date.
WeeklyKey(r) == <<r["Fees Paid Date"].year, r["Week"].v, r["Payment Type"]>>

\* What a call of create_time_summaries leaves: the exception it raised or "ok",
\* the two summaries, and the frame of the caller as the call left it.
TimeSummaries(status, monthly, weekly, df) ==
    [status |-> status, monthly |-> monthly, weekly |-> weekly, df |-> df]

\* The monthly groups of lines 34-38.
MonthlyGroups(df) ==
    LET kept == SelectSeq(df.rows, HasDate)
    IN  GroupBySum(kept, [i \in 1..Len(kept) |-> MonthlyKey(kept[i])])

\* The weekly groups of lines 47-51.
WeeklyGroups(df) ==
    LET kept == SelectSeq(df.rows, HasWeek)
    IN  GroupBySum(kept, [i \in 1..Len(kept) |-> WeeklyKey(kept[i])])

create_time_summaries(df) ==
    LET m1 == reset_index(MonthlyKeyNames, "Paid Amount", MonthlyGroups(df))
    IN  IF m1.status # "ok" THEN TimeSummaries(m1.status, EmptyFrame, EmptyFrame, df)
        ELSE
    LET m2 == AddPeriod(m1.frame, "Month")
    IN  IF m2.status # "ok" THEN TimeSummaries(m2.status, EmptyFrame, EmptyFrame, df)
        ELSE
    LET df2 == WithWeek(df)
        w1  == reset_index(WeeklyKeyNames, "Paid Amount", WeeklyGroups(df2))
    IN  IF w1.status # "ok" THEN TimeSummaries(w1.status, EmptyFrame, EmptyFrame, df2)
        ELSE
    LET w2 == AddPeriod(w1.frame, "Week")
    IN  IF w2.status # "ok" THEN TimeSummaries(w2.status, EmptyFrame, EmptyFrame, df2)
        ELSE TimeSummaries("ok", m2.frame, w2.frame, df2)

(***************************************************************************)
(* The pivot of the Time-based Analysis page                               *)
(***************************************************************************)
\* pd.pivot_table(summary, values='Paid Amount', index='Period',
\* columns='Payment Type', aggfunc='sum', fill_value=0).reset_index(): one row
\* per period in ascending order of the label text, one column per payment type
\* that occurs in summary, 0 where a period has no row of a type.
pivot_table(summary) ==
    LET rows    == summary.rows
        periods == SortedTexts({rows[i]["Period"] : i \in 1..Len(rows)})
        types   == SortedTypes({rows[i]["Payment Type"] : i \in 1..Len(rows)})
        Cell(p, t) == SumSeq([i \in 1..Len(rows) |->
                        IF rows[i]["Period"] = p /\ rows[i]["Payment Type"] = t
                        THEN rows[i]["Paid Amount"] ELSE 0])
    IN  [columns |-> <<"Period">> \o types,
         rows |-> [k \in 1..Len(periods) |->
                     [c \in {"Period"} \cup Range(types) |->
                        IF c = "Period" THEN periods[k] ELSE Cell(periods[k], c)]]]

\* pivot['Total'] = pivot[['CASH', 'ONLINE', 'OTHER']].sum(axis=1): KeyError when
\* one of the three columns is not in the pivot.
AddTotal(pivot) ==
    IF ~({"CASH", "ONLINE", "OTHER"} \subseteq Range(pivot.columns))
    THEN [status |-> "KeyError", frame |-> EmptyFrame]
    ELSE [status |-> "ok",
          frame |-> [columns |-> pivot.columns \o <<"Total">>,
                     rows |-> [k \in 1..Len(pivot.rows) |->
                                 ("Total" :> pivot.rows[k]["CASH"] + pivot.rows[k]["ONLINE"]
                                              + pivot.rows[k]["OTHER"]) @@ pivot.rows[k]]]]

\* The body of the 'Time-based Analysis' branch: the two pivots it shows.
TimeBasedAnalysis(df) ==
    LET ts == create_time_summaries(df)
    IN  IF ts.status # "ok" THEN TimeSummaries(ts.status, EmptyFrame, EmptyFrame, ts.df)
        ELSE
    LET mp == AddTotal(pivot_table(ts.monthly))
    IN  IF mp.status # "ok" THEN TimeSummaries(mp.status, EmptyFrame, EmptyFrame, ts.df)
        ELSE
    LET wp == AddTotal(pivot_table(ts.weekly))
    IN  IF wp.status # "ok" THEN TimeSummaries(wp.status, mp.frame, EmptyFrame, ts.df)
        ELSE TimeSummaries("ok", mp.frame, wp.frame, ts.df)

(***************************************************************************)
(* main: the page script                                                   *)
(***************************************************************************)
\* The result of the last call: the call (op), the exception it raised or "ok",
\* and what it returned or showed.
Out(op) ==
    [op |-> op, status |-> "ok", page |-> "", date |-> NoDate,
     frame |-> EmptyFrame, summary |-> EmptyFrame,
     monthly |-> EmptyFrame, weekly |-> EmptyFrame,
     total |-> 0, count |-> 0, days |-> 0]

\* The options of the sidebar radio.
RadioOptions == <<"Data Export", "Daily Analytics", "Advanced Analytics">>

\* The pages the if/elif chain of main has a branch for.
HandledPages == {"Data Export", "Daily Analytics", "Time-based Analysis", "Advanced Analytics"}

\* The branch of the if/elif chain a page value takes ("none": no branch).
Branch(page) ==
    IF page = "Data Export" THEN "Data Export"
    ELSE IF page = "Daily Analytics" THEN "Daily Analytics"
    ELSE IF page = "Time-based Analysis" THEN "Time-based Analysis"
    ELSE IF page = "Advanced Analytics" THEN "Advanced Analytics"
    ELSE "none"

\* The calendar dates among df['Fees Paid Date'].dt.date.unique() (NaT aside).
AvailableDates(df) == {DtDate(df.rows[i]["Fees Paid Date"]) : i \in {j \in 1..Len(df.rows) : HasDate(df.rows[j])}}

HasNaT(df) == \E i \in 1..Len(df.rows) : ~HasDate(df.rows[i])

\* sorted(...) of line 103 compares NaT with a datetime.date when both are among
\* the unique values.
SortedComparesNaT(df) == HasNaT(df) /\ AvailableDates(df) # {}

DateLeq(a, b) == Ordinal(a.year, a.month, a.day) <= Ordinal(b.year, b.month, b.day)

\* What st.date_input can answer: a date between the least and the greatest
\* available date, None when there is none (a list that holds NaT alone is
\* taken as none: no record has a date to select).
DateInputChoices(df, calendar_dates) ==
    IF AvailableDates(df) = {} THEN {NoDate}
    ELSE {d \in calendar_dates :
            /\ \E a \in AvailableDates(df) : DateLeq(a, d)
            /\ \E b \in AvailableDates(df) : DateLeq(d, b)}

\* The 'Data Export' branch.
DataExport(df, selected_date) ==
    IF ~selected_date.some THEN [Out("main") EXCEPT !.page = "Data Export"]
    ELSE LET filtered_df == get_data_by_date(df, selected_date)
         IN  IF Len(filtered_df.rows) = 0
             THEN [Out("main") EXCEPT !.page = "Data Export", !.date = selected_date]
             ELSE [Out("main") EXCEPT !.page = "Data Export", !.date = selected_date,
                      !.summary = display_payment_summary_table(filtered_df, selected_date),
                      !.count = Len(filtered_df.rows),
                      !.frame = filtered_df]

\* The 'Daily Analytics' branch.
DailyAnalytics(df, analytics_date) ==
    IF ~analytics_date.some THEN [Out("main") EXCEPT !.page = "Daily Analytics"]
    ELSE LET daily_data == get_data_by_date(df, analytics_date)
         IN  IF Len(daily_data.rows) = 0
             THEN [Out("main") EXCEPT !.page = "Daily Analytics", !.date = analytics_date]
             ELSE [Out("main") EXCEPT !.page = "Daily Analytics", !.date = analytics_date,
                      !.summary = display_payment_summary_table(daily_data, analytics_date),
                      !.total = ColumnSum(daily_data.rows, "Paid Amount"),
                      !.count = Len(daily_data.rows)]

\* The 'Advanced Analytics' branch: the overall statistics.
AdvancedAnalytics(df) ==
    [Out("main") EXCEPT !.page = "Advanced Analytics",
        !.total = ColumnSum(df.rows, "Paid Amount"),
        !.count = Len(df.rows),
        !.days = Cardinality(AvailableDates(df))]

\* The 'Time-based Analysis' branch.
TimeBasedPage(df) ==
    LET r == TimeBasedAnalysis(df)
    IN  [Out("main") EXCEPT !.page = "Time-based Analysis", !.status = r.status,
            !.monthly = r.monthly, !.weekly = r.weekly]

\* What one run of main shows for a cleaned frame.
Render(page, df, date) ==
    CASE Branch(page) = "Data Export" -> DataExport(df, date)
      [] Branch(page) = "Daily Analytics" -> DailyAnalytics(df, date)
      [] Branch(page) = "Time-based Analysis" -> TimeBasedPage(df)
      [] Branch(page) = "Advanced Analytics" -> AdvancedAnalytics(df)
      [] OTHER -> Out("main")

(***************************************************************************)
(* Inputs                                                                  *)
(***************************************************************************)
\* The dates the date picker and the callers of get_data_by_date choose among.
CalendarDates == {Date(2024, 1, 1), Date(2024, 6, 15), Date(2024, 12, 30)}

\* Data rows of the sheets that are uploaded: [date, details, amount].
SheetRow(date, details, amount) == [date |-> date, details |-> details, amount |-> amount]

RowPool ==
    << SheetRow(DateTimeCell(2024, 1, 1, 570), TextCell(<<99, 97, 115, 104>>), NumCell(5)),          \* 'cash'
       SheetRow(DateTimeCell(2024, 1, 1, 570), TextCell(<<79, 110, 108, 105, 110, 101>>),
                TextCell(<<51>>)),                                                                    \* 'Online', '3'
       SheetRow(TextCell(<<50, 48, 50, 52, 45, 49, 50, 45, 51, 48>>),
                TextCell(<<99, 97, 115, 104>>), NumCell(5)),                                          \* '2024-12-30'
       SheetRow(TextCell(<<50, 48, 50, 52, 45, 49, 50, 45, 51, 48>>), NullCell,
                TextCell(<<78, 47, 65>>)),                                                            \* 'N/A'
       SheetRow(TextCell(<<50, 48, 50, 52, 45, 48, 50, 45, 51, 48>>),
                TextCell(<<99, 97, 115, 104, 105, 101, 114>>), NumCell(5)),                           \* '2024-02-30', 'cashier'
       SheetRow(NullCell, NumCell(7), NullCell),
       SheetRow(DateTimeCell(2024, 1, 1, 0), TextCell(<<99, 97, 115, 104, 105, 101, 114>>), NullCell),
       SheetRow(NullCell, TextCell(<<99, 97, 115, 104>>), TextCell(<<51>>)),
       SheetRow(TextCell(<<50, 48, 50, 52, 45, 49, 50, 45, 51, 48>>),
                TextCell(<<79, 110, 108, 105, 110, 101>>), TextCell(<<45, 50>>)),                     \* '-2'
       SheetRow(TextCell(<<78, 47, 65>>), TextCell(T_CASH), NumCell(4)) >>

\* The two column orders sheets come in.
HeaderOrders ==
    { <<"Fees Paid Date", "Payment Details", "Paid Amount">>,
      <<"Paid Amount", "Fees Paid Date", "Payment Details">> }

\* A data row laid out under a header.
Layout(labels, r) ==
    [i \in 1..Len(labels) |->
        CASE labels[i] = "Fees Paid Date" -> r.date
          [] labels[i] = "Payment Details" -> r.details
          [] OTHER -> r.amount]

\* The frame read_excel returns for a sheet: a leading row that is dropped, the
\* row that names the columns, then the data rows.
Sheet(labels, picks) ==
    << [i \in 1..Len(labels) |-> NullCell],
       [i \in 1..Len(labels) |-> LabelCell(labels[i])] >>
    \o [k \in 1..Len(picks) |-> Layout(labels, RowPool[picks[k]])]

Sheets ==
    {Sheet(labels, picks) :
        labels \in HeaderOrders,
        picks \in UNION {[1..n -> 1..Len(RowPool)] : n \in 0..MaxRows}}

(***************************************************************************)
(* The session                                                             *)
(***************************************************************************)
VARIABLES
    uploaded,   \* uploaded_file is not None
    raw,        \* the frame read_excel returned for the uploaded file
    df,         \* the cleaned frame the session works on
    out         \* the result of the last call

vars == <<uploaded, raw, df, out>>

Init ==
    /\ uploaded = FALSE
    /\ raw = <<>>
    /\ df = EmptyFrame
    /\ out = Out("none")

\* A file is put into the uploader; it is read and cleaned (lines 97-101).
Upload ==
    /\ ~uploaded
    /\ \E sheet \in Sheets :
        /\ uploaded' = TRUE
        /\ raw' = sheet
        /\ df' = clean_data(sheet)
        /\ out' = Out("clean_data")

\* The file is taken out of the uploader.
Remove ==
    /\ uploaded
    /\ uploaded' = FALSE
    /\ raw' = <<>>
    /\ df' = EmptyFrame
    /\ out' = Out("none")

\* get_data_by_date(df, selected_date)
CallGetDataByDate ==
    /\ uploaded
    /\ \E d \in CalendarDates :
        out' = [Out("get_data_by_date") EXCEPT !.date = d, !.frame = get_data_by_date(df, d)]
    /\ UNCHANGED <<uploaded, raw, df>>

\* display_payment_summary_table(df) and display_payment_summary_table(df, date)
CallDisplayPaymentSummaryTable ==
    /\ uploaded
    /\ \E d \in CalendarDates \cup {NoDate} :
        out' = [Out("display_payment_summary_table") EXCEPT
                    !.date = d, !.summary = display_payment_summary_table(df, d)]
    /\ UNCHANGED <<uploaded, raw, df>>

\* create_time_summaries(df): the frame passed in is the session's own.
CallCreateTimeSummaries ==
    /\ uploaded
    /\ LET r == create_time_summaries(df)
       IN  /\ df' = r.df
           /\ out' = [Out("create_time_summaries") EXCEPT
                        !.status = r.status, !.monthly = r.monthly, !.weekly = r.weekly]
    /\ UNCHANGED <<uploaded, raw>>

\* One run of main: the radio answers one of its options, the file is read and
\* cleaned again, and the page is shown.  Whether comparing NaT with a date in
\* sorted() raises TypeError depends on the pandas release (nat_raises).
Main ==
    \E page \in Range(RadioOptions), nat_raises \in BOOLEAN :
        IF ~uploaded
        THEN /\ out' = [Out("main") EXCEPT !.page = "no file"]
             /\ UNCHANGED <<uploaded, raw, df>>
        ELSE LET cleaned == clean_data(raw)
             IN  /\ df' = cleaned
                 /\ UNCHANGED <<uploaded, raw>>
                 /\ IF nat_raises /\ SortedComparesNaT(cleaned)
                    THEN out' = [Out("main") EXCEPT !.status = "TypeError"]
                    ELSE \E date \in DateInputChoices(cleaned, CalendarDates) :
                            out' = Render(page, cleaned, date)

Next ==
    \/ Upload
    \/ Remove
    \/ CallGetDataByDate
    \/ CallDisplayPaymentSummaryTable
    \/ CallCreateTimeSummaries
    \/ Main

Spec == Init /\ [][Next]_vars

(***************************************************************************)
(* Properties                                                              *)
(***************************************************************************)
\* The raw data row behind row i of the cleaned frame, by column label.
RawCell(i, label) == raw[i + 2][IndexOf(HeaderLabels(raw), label)]

\* The text YYYY-MM-DD of a calendar day.
Pad2(n) == IF n < 10 THEN <<48>> \o StrOfNat(n) ELSE StrOfNat(n)
IsoText(y, m, d) == StrOfNat(y) \o <<45>> \o Pad2(m) \o <<45>> \o Pad2(d)

\* A date cell that holds no date: missing, or a text that writes no day.  The
\* days are those of the years 2023 to 2025; a text that starts with another
\* year is left undecided.
NotADate(cell) ==
    \/ cell.kind = "null"
    \/ /\ cell.kind = "text"
       /\ ~\E y \in 2023..2025, m \in 1..12 : \E d \in 1..DaysInMonth(y, m) : cell.v = IsoText(y, m, d)
       /\ ~(Len(cell.v) = 10 /\ AllDigits(SubSeq(cell.v, 1, 4))
             /\ NatOfDigits(SubSeq(cell.v, 1, 4)) \notin 2023..2025)

\* An amount cell that holds no number: missing, or a text with a character
\* that is neither a digit nor a sign.
NotANumber(cell) ==
    \/ cell.kind = "null"
    \/ cell.kind = "text" /\ \E i \in 1..Len(cell.v) : ~IsDigit(cell.v[i]) /\ cell.v[i] # 45

\* C2: clean_data returns exactly one record per data row of the sheet, in the
\* order of the data rows (row i carries the payment details, and the date and
\* amount where they are a datetime and a number, of data row i); a
\* cell that holds no date gives an absent date, a missing payment detail gives
\* OTHER, a cell that holds no number gives amount 0, and the row stays.
C2_CleanKeepsEveryRow ==
    uploaded =>
        /\ Len(df.rows) = Len(raw) - 2
        /\ \A i \in 1..(Len(raw) - 2) :
            /\ df.rows[i]["Payment Details"] = RawCell(i, "Payment Details")
            /\ RawCell(i, "Fees Paid Date").kind = "datetime" =>
                   df.rows[i]["Fees Paid Date"] = RawCell(i, "Fees Paid Date").v
            /\ RawCell(i, "Paid Amount").kind = "num" =>
                   df.rows[i]["Paid Amount"].v = RawCell(i, "Paid Amount").v
            /\ NotADate(RawCell(i, "Fees Paid Date")) => df.rows[i]["Fees Paid Date"].nat
            /\ RawCell(i, "Payment Details").kind = "null" => df.rows[i]["Payment Type"] = "OTHER"
            /\ NotANumber(RawCell(i, "Paid Amount")) =>
                   ~df.rows[i]["Paid Amount"].nan /\ df.rows[i]["Paid Amount"].v = 0

\* C2 witness: a sheet of two data rows was cleaned, the first with a text that
\* is no date and the second with a missing amount and a missing payment detail.
C2_Witness ==
    /\ uploaded
    /\ Len(raw) = 4
    /\ Len(df.rows) = 2
    /\ RawCell(1, "Fees Paid Date").kind = "text" /\ NotADate(RawCell(1, "Fees Paid Date"))
    /\ df.rows[1]["Fees Paid Date"].nat
    /\ RawCell(2, "Paid Amount").kind = "null"
    /\ df.rows[2]["Paid Amount"].v = 0

\* The record r has calendar date d.
OnDate(r, d) ==
    /\ ~r["Fees Paid Date"].nat
    /\ d.some
    /\ r["Fees Paid Date"].year = d.year
    /\ r["Fees Paid Date"].month = d.month
    /\ r["Fees Paid Date"].day = d.day

\* res is src with some elements left out, the rest in their order.
IsSubsequence(res, src) ==
    \E f \in [1..Len(res) -> 1..Len(src)] :
        /\ \A k \in 1..Len(res) : src[f[k]] = res[k]
        /\ \A k \in 1..(Len(res) - 1) : f[k] < f[k + 1]

\* The last call returned the records of one date: get_data_by_date itself, or
\* the Data Export page showing what it returned.
DateFiltered ==
    \/ out.op = "get_data_by_date"
    \/ out.op = "main" /\ out.page = "Data Export" /\ Len(out.frame.rows) > 0

\* C3: get_data_by_date(R, d) returns exactly the records of R whose date is d,
\* the time of day ignored, in their order in R; a record without date is never
\* returned, and no match gives the empty sequence.
C3_DateFilterExact ==
    DateFiltered =>
        /\ out.status = "ok"
        /\ \A k \in 1..Len(out.frame.rows) : OnDate(out.frame.rows[k], out.date)
        /\ Len(out.frame.rows) = Cardinality({i \in 1..Len(df.rows) : OnDate(df.rows[i], out.date)})
        /\ IsSubsequence(out.frame.rows, df.rows)

\* C3 witness: get_data_by_date returned one record, which has a time of day,
\* and left out the other record of the dataset, which has no date.
C3_Witness ==
    /\ out.op = "get_data_by_date"
    /\ Len(df.rows) = 2
    /\ Len(out.frame.rows) = 1
    /\ out.frame.rows[1]["Fees Paid Date"].minute > 0
    /\ \E i \in 1..2 : df.rows[i]["Fees Paid Date"].nat

\* The records a summary is about: those of the date, or all without a date.
SummaryInput(date) ==
    IF date.some THEN SelectSeq(df.rows, LAMBDA r : OnDate(r, date)) ELSE df.rows

\* The last call showed a payment summary.
SummaryShown ==
    \/ out.op = "display_payment_summary_table"
    \/ out.op = "main" /\ Len(out.summary.rows) > 0

\* C4: the payment summary conserves its input: the Total Amounts add up to the
\* paid amounts of the records, the Numbers of Transactions add up to the number
\* of records (records of amount 0 counted), and a payment type no record has
\* gets no row.
C4_SummaryConserves ==
    SummaryShown =>
        LET R == SummaryInput(out.date)
            S == out.summary.rows
        IN  /\ SumSeq([k \in 1..Len(S) |-> S[k]["Total Amount"]])
                 = SumSeq([i \in 1..Len(R) |-> R[i]["Paid Amount"].v])
            /\ SumSeq([k \in 1..Len(S) |-> S[k]["Number of Transactions"]]) = Len(R)
            /\ \A k \in 1..Len(S) : \E i \in 1..Len(R) : R[i]["Payment Type"] = S[k]["Payment Type"]
            /\ \A k, l \in 1..Len(S) : S[k]["Payment Type"] = S[l]["Payment Type"] => k = l

\* C4 witness: a summary restricted to one date was shown for two records of
\* that date, one of them with an amount coerced to 0, and it has fewer than
\* three rows.
C4_Witness ==
    /\ out.op = "display_payment_summary_table"
    /\ out.date.some
    /\ Len(SummaryInput(out.date)) = 2
    /\ \E i \in 1..Len(df.rows) :
          /\ OnDate(df.rows[i], out.date)
          /\ NotANumber(RawCell(i, "Paid Amount"))
    /\ Len(out.summary.rows) < 3

\* s and t are the same text up to the case of the letters A to Z.
EqIgnoreCase(s, t) ==
    /\ Len(s) = Len(t)
    /\ \A i \in 1..Len(s) :
        \/ s[i] = t[i]
        \/ s[i] \in 97..122 /\ s[i] - 32 = t[i]
        \/ s[i] \in 65..90 /\ s[i] + 32 = t[i]

\* C6: every payment-details cell is classified as exactly one of CASH, ONLINE,
\* OTHER: CASH exactly when its text is 'CASH' up to letter case, ONLINE exactly
\* when it is 'ONLINE' up to letter case, OTHER otherwise, a missing cell and a
\* cell that is no text included.
C6_ClassificationTotal ==
    uploaded =>
        \A i \in 1..Len(df.rows) :
            LET cell == RawCell(i, "Payment Details")
                t    == df.rows[i]["Payment Type"]
            IN  /\ t \in {"CASH", "ONLINE", "OTHER"}
                /\ t = "CASH" <=> (cell.kind = "text" /\ EqIgnoreCase(cell.v, T_CASH))
                /\ t = "ONLINE" <=> (cell.kind = "text" /\ EqIgnoreCase(cell.v, T_ONLINE))
                /\ cell.kind \in {"null", "num"} => t = "OTHER"

\* C6 witness: a cleaned dataset holds a lower-case 'cash' classified CASH and a
\* missing payment detail classified OTHER.
C6_Witness ==
    /\ uploaded
    /\ Len(df.rows) = 2
    /\ RawCell(1, "Payment Details").kind = "text"
    /\ RawCell(1, "Payment Details").v = <<99, 97, 115, 104>>
    /\ df.rows[1]["Payment Type"] = "CASH"
    /\ RawCell(2, "Payment Details").kind = "null"
    /\ df.rows[2]["Payment Type"] = "OTHER"

\* The paid amounts of the records that have a date, added up.
DatedTotal(frame) ==
    SumSeq([i \in 1..Len(frame.rows) |->
                IF frame.rows[i]["Fees Paid Date"].nat THEN 0 ELSE frame.rows[i]["Paid Amount"].v])

\* The Paid Amount column of a summary, added up.
BucketTotal(summary) == SumSeq([k \in 1..Len(summary.rows) |-> summary.rows[k]["Paid Amount"]])

\* C1: for every cleaned dataset the Time-based Analysis page builds the monthly
\* and the weekly pivot without failing, and every row of either has the three
\* columns CASH, ONLINE and OTHER.
C1_PivotHasAllColumns ==
    uploaded =>
        LET v == TimeBasedAnalysis(df)
        IN  /\ v.status = "ok"
            /\ \A k \in 1..Len(v.monthly.rows) : {"CASH", "ONLINE", "OTHER"} \subseteq DOMAIN v.monthly.rows[k]
            /\ \A k \in 1..Len(v.weekly.rows) : {"CASH", "ONLINE", "OTHER"} \subseteq DOMAIN v.weekly.rows[k]

\* C5: create_time_summaries returns monthly and weekly buckets whose sums add
\* up to the paid amounts of the dated records alone, so a record without date
\* is in no bucket; the totals of the Advanced Analytics page count every
\* record, those without date too.
C5_AbsentDateInNoBucket ==
    /\ out.op = "create_time_summaries" =>
          /\ out.status = "ok"
          /\ BucketTotal(out.monthly) = DatedTotal(clean_data(raw))
          /\ BucketTotal(out.weekly) = DatedTotal(clean_data(raw))
    /\ out.op = "main" /\ out.page = "Advanced Analytics" =>
          /\ out.total = SumSeq([i \in 1..Len(df.rows) |-> df.rows[i]["Paid Amount"].v])
          /\ out.count = Len(df.rows)

RECURSIVE FirstOccurrences(_)
\* The elements of a sequence in the order in which each first occurs.
FirstOccurrences(s) ==
    IF Len(s) = 0 THEN <<>>
    ELSE LET init == FirstOccurrences(SubSeq(s, 1, Len(s) - 1))
         IN  IF s[Len(s)] \in Range(init) THEN init ELSE init \o <<s[Len(s)]>>

\* The Period column of a frame.
Periods(frame) == [k \in 1..Len(frame.rows) |-> frame.rows[k]["Period"]]

\* C7: the rows of the monthly and of the weekly pivot are built and come in the
\* order in which each period label first occurs in the bucket rows of
\* create_time_summaries.
C7_PivotKeepsBucketOrder ==
    uploaded =>
        LET ts == create_time_summaries(df)
            v  == TimeBasedAnalysis(df)
        IN  /\ ts.status = "ok" /\ v.status = "ok"
            /\ Periods(v.monthly) = FirstOccurrences(Periods(ts.monthly))
            /\ Periods(v.weekly) = FirstOccurrences(Periods(ts.weekly))

MondayOf(ts) == Ordinal(ts.year, ts.month, ts.day) - (IsoWeekday(ts.year, ts.month, ts.day) - 1)

\* C9: records that the weekly grouping sums into one bucket (they have the
\* same weekly key) lie in one Monday-to-Sunday span.
C9_WeeklyBucketIsOneIsoWeek ==
    uploaded =>
        LET rows == WithWeek(df).rows
        IN  \A i, j \in 1..Len(rows) :
                (HasWeek(rows[i]) /\ HasWeek(rows[j]) /\ WeeklyKey(rows[i]) = WeeklyKey(rows[j]))
                    => MondayOf(rows[i]["Fees Paid Date"]) = MondayOf(rows[j]["Fees Paid Date"])

\* C10: with a dataset uploaded, every page main has a branch for is the branch
\* of some option of the sidebar radio.
C10_EveryPageSelectable ==
    uploaded => \A p \in HandledPages : \E c \in Range(RadioOptions) : Branch(c) = p

====
